---------------------------- MODULE Spec2Model ----------------------------
(***************************************************************************)
(* Model of the betting core of Testbett: the Poisson score model          *)
(* (src/models/poisson.py), the edge arithmetic                             *)
(* (src/models/true_probability.py), fractional-Kelly staking              *)
(* (src/execution/kelly.py), the bankroll ledger                            *)
(* (src/execution/bankroll.py), the advisory parser (src/llm) and the      *)
(* decision loop Executor.run (src/execution/executor.py).                 *)
(*                                                                         *)
(* Number representation.  The Python code computes in binary floats; the  *)
(* model computes in fixed point, rounding to nearest where a float        *)
(* operation rounds:                                                       *)
(*   probabilities, edges, Kelly fractions : units of 1e-6   (PScale)      *)
(*   expected-goal rates                   : tenths          (RateScale)   *)
(*   decimal odds                          : hundredths      (OddsScale)   *)
(*   money (balance, stake, loss)          : cents                         *)
(*   unrounded stakes inside compute_stake : 1e-3 cent       (MilliCent)   *)
(*   advisory stake multiplier             : hundredths      (MultScale)   *)
(***************************************************************************)
EXTENDS Integers, Sequences, FiniteSets, TLC

PScale    == 1000 * 1000
RateScale == 2 * 5
OddsScale == 10 * 10
MilliCent == 10 * 100
MultScale == 10 * 10

\* ------------------------------------------------------------------------
\* Arithmetic helpers
\* ------------------------------------------------------------------------

Min(a, b) == IF a <= b THEN a ELSE b
Max(a, b) == IF a >= b THEN a ELSE b

\* Nearest integer to n / d for n >= 0, d > 0; an exact half goes to the even
\* neighbour, as Python's round() does.
RoundDiv(n, d) ==
    LET q == n \div d
        r == n % d
    IN  IF 2 * r < d THEN q
        ELSE IF 2 * r > d THEN q + 1
        ELSE IF q % 2 = 0 THEN q ELSE q + 1

\* round(x, ndigits) of a signed value n / d.
RoundSigned(n, d) == IF n >= 0 THEN RoundDiv(n, d) ELSE 0 - RoundDiv(0 - n, d)

\* Product of two PScale fixed-point numbers in 0..PScale, rounded to nearest,
\* computed in two limbs so that no intermediate exceeds 32 bits.
MulP(a, b) ==
    LET a1 == a \div 1000
        a0 == a % 1000
        b1 == b \div 1000
        b0 == b % 1000
    IN  a1 * b1 + RoundDiv((a1 * b0 + a0 * b1) * 1000 + a0 * b0, PScale)

\* f[0] + ... + f[n]
SumTo(f, n) ==
    LET s[m \in 0..n] == IF m = 0 THEN f[0] ELSE f[m] + s[m - 1]
    IN  s[n]

\* ------------------------------------------------------------------------
\* src/models/poisson.py
\* ------------------------------------------------------------------------

max_goals == 10

\* math.exp(-lam) for the rates the model uses (lam in tenths), in PScale units.
ExpNeg(lam) ==
    CASE lam = 1   -> 904837
      [] lam = 5   -> 606531
      [] lam = 10  -> 367879
      [] lam = 12  -> 301194
      [] lam = 15  -> 223130
      [] lam = 20  -> 135335
      [] lam = 25  -> 82085
      [] lam = 30  -> 49787
      [] lam = 40  -> 18316
      [] lam = 50  -> 6738
      [] lam = 60  -> 2479
      [] lam = 80  -> 335
      [] lam = 100 -> 45

\* lam**k * exp(-lam) / k!, built up one factor lam/k at a time so that no
\* intermediate exceeds 32 bits.
PowOverFact(k, lam) ==
    LET t[n \in 0..k] == IF n = 0 THEN ExpNeg(lam)
                         ELSE RoundDiv(t[n - 1] * lam, RateScale * n)
    IN  t[k]

poisson_pmf(k, lam) ==
    IF lam <= 0 THEN (IF k = 0 THEN PScale ELSE 0)
    ELSE PowOverFact(k, lam)

score_matrix(lam_home, lam_away) ==
    LET ph == [i \in 0..max_goals |-> poisson_pmf(i, lam_home)]
        pa == [j \in 0..max_goals |-> poisson_pmf(j, lam_away)]
    IN  [i \in 0..max_goals |-> [j \in 0..max_goals |-> MulP(ph[i], pa[j])]]

\* Sum of the cells (i, j) of the grid for which sel[i][j] holds.
GridSum(matrix, sel) ==
    LET row(i) == SumTo([j \in 0..max_goals |->
                           IF sel[i][j] THEN matrix[i][j] ELSE 0], max_goals)
    IN  SumTo([i \in 0..max_goals |-> row(i)], max_goals)

\* compute_probabilities with an away branch that also takes the drawn cells.
compute_probabilities_overlapping(lam_home, lam_away) ==
    LET matrix == score_matrix(lam_home, lam_away)
        G      == 0..max_goals
        home   == [i \in G |-> [j \in G |-> i > j]]
        draw   == [i \in G |-> [j \in G |-> i = j]]
        away   == [i \in G |-> [j \in G |-> ~(i > j)]]
        over   == [i \in G |-> [j \in G |-> i + j > 2]]
        under  == [i \in G |-> [j \in G |-> ~(i + j > 2)]]
    IN  [home_win_prob |-> GridSum(matrix, home),
         draw_prob     |-> GridSum(matrix, draw),
         away_win_prob |-> GridSum(matrix, away),
         over_prob     |-> GridSum(matrix, over),
         under_prob    |-> GridSum(matrix, under)]

compute_probabilities(lam_home, lam_away) ==
    LET matrix == score_matrix(lam_home, lam_away)
        G      == 0..max_goals
        home   == [i \in G |-> [j \in G |-> i > j]]
        draw   == [i \in G |-> [j \in G |-> i = j]]
        away   == [i \in G |-> [j \in G |-> ~(i > j) /\ ~(i = j)]]
        over   == [i \in G |-> [j \in G |-> i + j > 2]]
        under  == [i \in G |-> [j \in G |-> ~(i + j > 2)]]
    IN  [home_win_prob |-> GridSum(matrix, home),
         draw_prob     |-> GridSum(matrix, draw),
         away_win_prob |-> GridSum(matrix, away),
         over_prob     |-> GridSum(matrix, over),
         under_prob    |-> GridSum(matrix, under)]

\* ------------------------------------------------------------------------
\* src/models/true_probability.py
\* ------------------------------------------------------------------------

compute_true_probabilities(poisson_result) ==
    [home_win |-> poisson_result.home_win_prob,
     draw     |-> poisson_result.draw_prob,
     away_win |-> poisson_result.away_win_prob,
     over_25  |-> poisson_result.over_prob,
     under_25 |-> poisson_result.under_prob]

\* implied_probability raises ValueError exactly when this is FALSE.
OddsValid(decimal_odds) == decimal_odds > 0

implied_probability(decimal_odds) == RoundDiv(OddsScale * PScale, decimal_odds)

compute_edge(true_prob, decimal_odds) == true_prob - implied_probability(decimal_odds)

\* a / b in PScale units for 0 <= a <= b, rounded to nearest: a long division
\* in three base-100 digits, so that no intermediate exceeds 32 bits.
Quotient(a, b) ==
    LET d1 == (a * 100) \div b
        r1 == (a * 100) % b
        d2 == (r1 * 100) \div b
        r2 == (r1 * 100) % b
    IN  d1 * 10000 + d2 * 100 + RoundDiv(r2 * 100, b)

\* What devig returns when the implied probabilities are handed back as they
\* are, without the division by their sum.
devig_unnormalised(home_odds, draw_odds, away_odds) ==
    IF ~(OddsValid(home_odds) /\ OddsValid(draw_odds) /\ OddsValid(away_odds))
    THEN [raised |-> TRUE, home |-> 0, draw |-> 0, away |-> 0]
    ELSE [raised |-> FALSE,
          home   |-> implied_probability(home_odds),
          draw   |-> implied_probability(draw_odds),
          away   |-> implied_probability(away_odds)]

\* devig: the list comprehension calls implied_probability on each of the
\* three odds, so the ValueError of any of them leaves devig; otherwise each
\* implied probability is divided by their sum.
devig(home_odds, draw_odds, away_odds) ==
    IF ~(OddsValid(home_odds) /\ OddsValid(draw_odds) /\ OddsValid(away_odds))
    THEN [raised |-> TRUE, home |-> 0, draw |-> 0, away |-> 0]
    ELSE LET raw   == <<implied_probability(home_odds),
                        implied_probability(draw_odds),
                        implied_probability(away_odds)>>
             total == raw[1] + raw[2] + raw[3]
         IN  [raised |-> FALSE,
              home   |-> Quotient(raw[1], total),
              draw   |-> Quotient(raw[2], total),
              away   |-> Quotient(raw[3], total)]

\* ------------------------------------------------------------------------
\* src/execution/kelly.py
\* ------------------------------------------------------------------------

\* Mutant: the result is not clamped into [0, 1].
kelly_fraction_unclamped(true_prob, decimal_odds) ==
    LET b   == decimal_odds - OddsScale
        q   == PScale - true_prob
        num == b * true_prob - OddsScale * q
    IN  IF b <= 0 THEN 0
        ELSE RoundSigned(num, b)

kelly_fraction(true_prob, decimal_odds) ==
    LET b   == decimal_odds - OddsScale
        q   == PScale - true_prob
        num == b * true_prob - OddsScale * q
    IN  IF b <= 0 THEN 0
        ELSE Max(0, Min(PScale, RoundSigned(num, b)))

\* fraction is in hundredths (0.25 = 25).
fractional_kelly(true_prob, decimal_odds, fraction) ==
    RoundDiv(fraction * kelly_fraction(true_prob, decimal_odds), 100)

\* frac * bankroll in units of 1e-3 cent (frac in PScale units, bankroll in
\* cents), split in two limbs to stay within 32 bits.
FracOfBankroll(frac, bankroll) ==
    (frac \div 1000) * bankroll + ((frac % 1000) * bankroll) \div 1000

\* max_stake_pct is in thousandths (0.05 = 50), so bankroll * max_stake_pct is
\* bankroll * max_stake_pct thousandths of a cent.
compute_stake(bankroll, true_prob, decimal_odds, kelly_frac, max_stake_pct, min_stake) ==
    LET frac   == fractional_kelly(true_prob, decimal_odds, kelly_frac)
        raw    == FracOfBankroll(frac, bankroll)
        capped == Min(raw, bankroll * max_stake_pct)
    IN  IF capped < min_stake * MilliCent THEN 0
        ELSE RoundDiv(capped, MilliCent)

\* compute_stake for a bankroll that is not a whole number of cents: bankroll
\* and min_stake are in 1e-3 cent here, the result is in cents as before. The
\* amounts before rounding are kept in 1e-6 cent.
compute_stake_subcent(bankroll, true_prob, decimal_odds, kelly_frac, max_stake_pct, min_stake) ==
    LET frac   == fractional_kelly(true_prob, decimal_odds, kelly_frac)
        raw    == IF bankroll >= 0 THEN MulP(frac, bankroll) * MilliCent
                  ELSE 0 - MulP(frac, 0 - bankroll) * MilliCent
        capped == Min(raw, bankroll * max_stake_pct)
    IN  IF capped < min_stake * MilliCent THEN 0
        ELSE RoundDiv(capped, MilliCent * MilliCent)

\* ------------------------------------------------------------------------
\* config/settings.py: the defaults of the numeric settings
\* ------------------------------------------------------------------------

\* 0.25, in hundredths
KELLY_FRACTION == 25
\* 0.05, in thousandths
MAX_STAKE_PCT == 50
\* 1.0, in cents
MIN_STAKE == 100
\* 50.0, in cents
DAILY_LOSS_LIMIT == 5000
\* 0.03, in PScale units
MIN_EDGE_THRESHOLD == 30000
\* 1000.0, in cents
INITIAL_BANKROLL == 100000

\* ------------------------------------------------------------------------
\* src/execution/bankroll.py
\* ------------------------------------------------------------------------

BankrollState(balance, initial_balance, total_wagered, total_profit_loss, daily_loss, bets_today) ==
    [balance           |-> balance,
     initial_balance   |-> initial_balance,
     total_wagered     |-> total_wagered,
     total_profit_loss |-> total_profit_loss,
     daily_loss        |-> daily_loss,
     bets_today        |-> bets_today]

\* The state load() builds when the file is missing or unreadable.
FreshState(initial_balance) ==
    BankrollState(initial_balance, initial_balance, 0, 0, 0, 0)

\* The fields of the dataclass, in declaration order.
BankrollFields ==
    <<"balance", "initial_balance", "total_wagered", "total_profit_loss", "daily_loss", "bets_today">>

\* Mutant: balance and initial_balance are written under each other's key.
asdict_swapped(state) ==
    << <<"balance", state.initial_balance>>, <<"initial_balance", state.balance>>,
       <<"total_wagered", state.total_wagered>>,
       <<"total_profit_loss", state.total_profit_loss>>,
       <<"daily_loss", state.daily_loss>>, <<"bets_today", state.bets_today>> >>

\* asdict(state) as json.dump writes it: the members <<key, value>> of a JSON
\* object, in field order.  (A float is written by repr and read back to the
\* same float; a cent amount stands for itself.)
asdict(state) ==
    [k \in 1..Len(BankrollFields) |-> <<BankrollFields[k], state[BankrollFields[k]]>>]

\* The durable file: whether it exists and what reading it gives:
\*   "not_json"    text that json.load rejects with JSONDecodeError (an empty
\*                 or cut-off file included)
\*   "json_other"  a JSON value that is not an object (list, number, null)
\*   "json_object" a JSON object, data holding its members
\*   "not_utf8"    bytes that do not decode: fh.read() raises UnicodeDecodeError
\*   "too_deep"    nesting beyond the recursion limit: json.load raises
\*                 RecursionError
NoFile       == [exists |-> FALSE, kind |-> "none",     data |-> << >>]
CorruptFile  == [exists |-> TRUE,  kind |-> "not_json", data |-> << >>]

\* save(state): open(filepath, "w") and json.dump, completed.
save(state) == [exists |-> TRUE, kind |-> "json_object", data |-> asdict(state)]

\* The value json.load gives for a key of an object (the last member wins).
Member(data, key) ==
    data[CHOOSE k \in 1..Len(data) :
            /\ data[k][1] = key
            /\ \A m \in (k + 1)..Len(data) : data[m][1] # key][2]

\* BankrollState(**data) raises TypeError unless data is a mapping whose keys
\* are exactly the six fields.
KeywordsFit(f) ==
    /\ f.kind = "json_object"
    /\ {f.data[k][1] : k \in 1..Len(f.data)} = {BankrollFields[k] : k \in 1..Len(BankrollFields)}

\* Lines 32-33 raise an exception that line 37 does not catch.
ReadRaises(f) == f.exists /\ f.kind \in {"not_utf8", "too_deep"}

\* load(): the state returned and cached in _state, the file afterwards, and
\* whether load() raised instead of returning (then _state is not assigned).
load(f, initial_balance) ==
    IF f.exists /\ ReadRaises(f)
    THEN [state |-> FreshState(initial_balance), file |-> f, raised |-> TRUE]
    ELSE IF f.exists /\ KeywordsFit(f)
    THEN [state  |-> BankrollState(Member(f.data, "balance"),
                                   Member(f.data, "initial_balance"),
                                   Member(f.data, "total_wagered"),
                                   Member(f.data, "total_profit_loss"),
                                   Member(f.data, "daily_loss"),
                                   Member(f.data, "bets_today")),
          file   |-> f,
          raised |-> FALSE]
    ELSE [state  |-> FreshState(initial_balance),
          file   |-> save(FreshState(initial_balance)),
          raised |-> FALSE]

\* Mutant: the bet is not counted.
record_bet_uncounted(state, stake) ==
    [state EXCEPT !.balance       = @ - stake,
                  !.total_wagered = @ + stake]

\* record_bet(stake): the mutated state (which the method then saves).
record_bet(state, stake) ==
    [state EXCEPT !.balance       = @ - stake,
                  !.total_wagered = @ + stake,
                  !.bets_today    = @ + 1]

\* Mutant: the result moves the balance but is not booked in total_profit_loss.
record_result_unbooked(state, profit_loss) ==
    [state EXCEPT !.balance    = @ + profit_loss,
                  !.daily_loss = IF profit_loss < 0 THEN @ - profit_loss ELSE @]

\* Mutant: a profit clears the loss accumulator.
record_result_win_clears(state, profit_loss) ==
    [state EXCEPT !.balance           = @ + profit_loss,
                  !.total_profit_loss = @ + profit_loss,
                  !.daily_loss        = IF profit_loss < 0 THEN @ - profit_loss
                                        ELSE IF profit_loss > 0 THEN 0 ELSE @]

\* Mutant: a profit is added to daily_loss too.
record_result_any_sign(state, profit_loss) ==
    [state EXCEPT !.balance           = @ + profit_loss,
                  !.total_profit_loss = @ + profit_loss,
                  !.daily_loss        = IF profit_loss < 0 THEN @ - profit_loss
                                        ELSE @ + profit_loss]

\* record_result(profit_loss): the mutated state (which the method then saves).
record_result(state, profit_loss) ==
    [state EXCEPT !.balance           = @ + profit_loss,
                  !.total_profit_loss = @ + profit_loss,
                  !.daily_loss        = IF profit_loss < 0 THEN @ - profit_loss ELSE @]

\* Mutant: the gate compares with <= instead of <.
check_daily_loss_limit_inclusive(state, daily_loss_limit) ==
    state.daily_loss <= daily_loss_limit

check_daily_loss_limit(state, daily_loss_limit) ==
    state.daily_loss < daily_loss_limit

\* ------------------------------------------------------------------------
\* src/llm/llm_client.py and src/llm/bet_analyst.py
\* ------------------------------------------------------------------------

\* The text of an advisory reply, by what json.loads and the four data.get()
\* conversions of _parse make of it:
\*   kind      "text" (not JSON), "json_other" (JSON, but a list, number,
\*             string or null), "json_object"
\*   approved  "absent" | "true" | "false" | "string" (a non-empty string)
\*   confidence "absent" | "number" | "string" (not numeric) | "null"
\*   mult_kind "absent" | "number" | "string" (not numeric); mult the number,
\*             in hundredths
Reply(kind, approved, confidence, mult_kind, mult) ==
    [kind |-> kind, approved |-> approved, confidence |-> confidence,
     mult_kind |-> mult_kind, mult |-> mult]

\* StubLLMClient.chat: approved true, confidence 0.75, stake_multiplier 1.0.
StubReply == Reply("json_object", "true", "number", "number", 100)

\* OpenAILLMClient.chat: the reply of the API, or the stub's reply when the
\* API call raises; an empty content is replaced by "{}".
EmptyObject == Reply("json_object", "absent", "absent", "absent", 0)

chat(client, api_ok, content) ==
    IF client = "StubLLMClient" THEN StubReply
    ELSE IF ~api_ok THEN StubReply
    ELSE content

\* BetAnalysis, plus whether _parse raised instead of returning one.
BetAnalysis(approved, stake_multiplier, raised) ==
    [approved |-> approved, stake_multiplier |-> stake_multiplier, raised |-> raised]

ParseDefault == BetAnalysis(FALSE, 100, FALSE)

\* bool(data.get("approved", False))
ApprovedTruth(v) == v \in {"true", "string"}

\* float(x) raises ValueError on a non-numeric string, TypeError on null.
FloatRaises(kind) == kind \in {"string", "null"}

_parse(raw) ==
    IF raw.kind = "text" THEN ParseDefault
    ELSE IF raw.kind = "json_other" THEN BetAnalysis(FALSE, 100, TRUE)
    ELSE IF FloatRaises(raw.confidence) \/ FloatRaises(raw.mult_kind) THEN ParseDefault
    ELSE BetAnalysis(ApprovedTruth(raw.approved),
                     IF raw.mult_kind = "absent" THEN 100
                     ELSE Max(0, Min(200, raw.mult)),
                     FALSE)

\* ------------------------------------------------------------------------
\* src/execution/sportsbook_api.py
\* ------------------------------------------------------------------------

\* What place_bet can do, by collaborator: StubSportsbook always accepts;
\* LiveSportsbook returns success=True or raises out of _post; any other
\* SportsbookProtocol implementation returns a BetResponse whose success is
\* either value.
PlaceOutcomes(book) ==
    CASE book = "StubSportsbook"  -> {"accepted"}
      [] book = "LiveSportsbook"  -> {"accepted", "raised"}
      [] book = "OtherSportsbook" -> {"accepted", "declined"}

\* ------------------------------------------------------------------------
\* src/research/normalization.py: NormalizedEvent, and the inputs of a run
\* ------------------------------------------------------------------------

\* The fields of a NormalizedEvent that run() computes with (rates in tenths,
\* odds in hundredths); an event is identified by its position in the list.
NormalizedEvent(home_lambda, away_lambda, home_odds, draw_odds, away_odds) ==
    [home_lambda |-> home_lambda, away_lambda |-> away_lambda,
     home_odds |-> home_odds, draw_odds |-> draw_odds, away_odds |-> away_odds]

\* Best edge 0.026 (away), positive but under the threshold.
SkipEvent == NormalizedEvent(15, 12, 210, 340, 360)
\* Home edge 0.13; the Kelly stake hits the MAX_STAKE_PCT cap.
HomeEvent == NormalizedEvent(20, 10, 210, 340, 360)
\* Away edge 0.041; the Kelly stake (1.4% of the balance) is under the cap.
AwayEvent == NormalizedEvent(15, 12, 210, 340, 380)
\* Home and away have the same edge -0.5, draw has -1.0.
TieEvent  == NormalizedEvent(0, 0, 200, 50, 200)
\* A non-positive price: implied_probability raises ValueError.
BadEvent  == NormalizedEvent(20, 10, 0, 340, 360)

EventCatalog == {SkipEvent, HomeEvent, AwayEvent, TieEvent, BadEvent}

\* Longest event list.
MaxEvents == 2
\* Largest MAX_BETS_PER_RUN setting.
MaxBetsSetting == 2

EventLists == UNION {[1..n -> EventCatalog] : n \in 0..MaxEvents}

\* Ledger files a run can start from: a ledger never used, one with 979.86
\* staked in 25 unsettled bets (MAX_STAKE_PCT of its balance of 20.14 is not a
\* whole number of cents), and one after record_bet(50.00) and
\* record_result(-50.00), whose daily loss equals DAILY_LOSS_LIMIT.
UnusedLedger  == FreshState(INITIAL_BANKROLL)
LowLedger     == BankrollState(2014, INITIAL_BANKROLL, 97986, 0, 0, 25)
AtLimitLedger == record_result(record_bet(UnusedLedger, 5000), 0 - 5000)

FileStates == {NoFile, CorruptFile, save(UnusedLedger), save(LowLedger), save(AtLimitLedger)}

\* Replies of the advisory API.
ReplyCatalog ==
    { Reply("json_object", "true", "number", "number", 100),
      Reply("json_object", "true", "number", "number", 300),
      Reply("json_object", "true", "number", "number", 50),
      Reply("json_object", "true", "absent", "number", 0),
      Reply("json_object", "true", "number", "number", 0 - 50),
      Reply("json_object", "false", "number", "number", 100),
      Reply("json_object", "string", "absent", "absent", 0),
      Reply("json_object", "true", "string", "number", 100),
      Reply("json_object", "true", "number", "string", 0),
      EmptyObject,
      Reply("text", "absent", "absent", "absent", 0),
      Reply("json_other", "absent", "absent", "absent", 0) }

\* One consultation of the advisory: whether the API call succeeds, and the
\* content it returns if it does.
AdvisoryInputs(analyst) ==
    IF analyst = "OpenAILLMClient"
    THEN {[api_ok |-> FALSE, content |-> EmptyObject]}
         \cup {[api_ok |-> TRUE, content |-> c] : c \in ReplyCatalog}
    ELSE {[api_ok |-> TRUE, content |-> EmptyObject]}

\* ------------------------------------------------------------------------
\* src/execution/executor.py
\* ------------------------------------------------------------------------

VARIABLES
    events,            \* the argument of run()
    DRY_RUN,           \* settings.DRY_RUN
    MAX_BETS_PER_RUN,  \* settings.MAX_BETS_PER_RUN
    llm_analyst,       \* "none", or the LLM client behind the BetAnalyst
    sportsbook,        \* the class of the placement collaborator
    file,              \* the durable ledger file
    bankroll,          \* the BankrollManager: whether _state is set, and _state
    loaded,            \* a copy of what load() returned at the start of run()
    pc,                \* "start", "loop", "done" (returned), "raised"
    pos,                 \* position in events of the next event
    records,           \* the list run() returns
    bets_placed,       \* the counter of run()
    calls,             \* how often analyse, place_bet and record_bet were called
    last,              \* what the most recent loop iteration did
    ledger_op,         \* the BankrollManager call in progress or just finished
    evaluation,        \* a call of one of the pure functions, and its result
    other              \* a second BankrollManager on the same file

vars == <<events, DRY_RUN, MAX_BETS_PER_RUN, llm_analyst, sportsbook, file,
          bankroll, loaded, pc, pos, records, bets_placed, calls, last,
          ledger_op, evaluation, other>>

\* What run() has no access to.
apart == <<ledger_op, evaluation, other>>

settings == <<events, DRY_RUN, MAX_BETS_PER_RUN, llm_analyst, sportsbook>>

\* A run that keeps for its stakes the balance it read at its start.
RunState_at_load == loaded

\* The local `state` of run() (line 41): the object load() returned, which is
\* the manager's _state itself, so that record_bet changes it in place.
RunState == bankroll.state

\* A gate that reads the ledger file at every check.
GateState_reread == load(file, INITIAL_BANKROLL).state

\* The state check_daily_loss_limit looks at: `self._state or self.load()`,
\* and _state is set from line 41 on.
GateState == bankroll.state

\* Mutant: the last element of maximal key instead of the first.
MaxIndex_last(keys) ==
    CHOOSE k \in 1..Len(keys) :
        /\ \A m \in 1..Len(keys) : keys[m] <= keys[k]
        /\ \A m \in (k + 1)..Len(keys) : keys[m] < keys[k]

\* max(candidates, key=...): the position of the first element whose key is
\* maximal.
MaxIndex(keys) ==
    CHOOSE k \in 1..Len(keys) :
        /\ \A m \in 1..Len(keys) : keys[m] <= keys[k]
        /\ \A m \in 1..(k - 1) : keys[m] < keys[k]

_best_selection(event, true_probs) ==
    LET candidates == << <<"home", true_probs.home_win, event.home_odds>>,
                         <<"draw", true_probs.draw,     event.draw_odds>>,
                         <<"away", true_probs.away_win, event.away_odds>> >>
        best == candidates[MaxIndex([k \in 1..3 |->
                    compute_edge(candidates[k][2], candidates[k][3])])]
    IN  [selection |-> best[1],
         edge      |-> compute_edge(best[2], best[3]),
         odds      |-> best[3],
         true_prob |-> best[2]]

\* compute_edge is evaluated for all three candidates, so _best_selection
\* raises ValueError when any of the three prices is not positive.
EventOddsValid(event) ==
    OddsValid(event.home_odds) /\ OddsValid(event.draw_odds) /\ OddsValid(event.away_odds)

\* Line 54, computed once for each pair of rates of the catalog.
PoissonResults ==
    {<<r, compute_probabilities(r[1], r[2])>> :
        r \in {<<e.home_lambda, e.away_lambda>> : e \in EventCatalog}}

PoissonResultOf(event) ==
    (CHOOSE p \in PoissonResults : p[1] = <<event.home_lambda, event.away_lambda>>)[2]

\* Lines 54-59: the best selection of an event.
Best(event) ==
    _best_selection(event,
        compute_true_probabilities(
            PoissonResultOf(event)))

\* Mutant: the counter is compared with > instead of >=.
MaxBetsReached_strict(placed, max_bets) == placed > max_bets

\* Line 46.
MaxBetsReached(placed, max_bets) == placed >= max_bets

\* Line 61.
EdgeBelowThreshold(best_edge, threshold) == best_edge < threshold

\* Lines 70-77.
KellyStake(best, balance) ==
    compute_stake(balance, best.true_prob, best.odds,
                  KELLY_FRACTION, MAX_STAKE_PCT, MIN_STAKE)

\* Line 79.
StakeTooSmall(stake) == stake <= 0

\* BetAnalyst.analyse: the client's reply, parsed.
analyse(analyst, inp) == _parse(chat(analyst, inp.api_ok, inp.content))

\* Mutant: the approved flag is ignored.
Rejected_never(analysis) == FALSE

\* Line 97.
Rejected(analysis) == ~analysis.approved

\* Mutant: the rescaled stake is not clamped against the ceiling again.
Rescaled_unclamped(stake, stake_multiplier, balance) ==
    RoundDiv(stake * stake_multiplier, MultScale)

\* Lines 104-107.
Rescaled(stake, stake_multiplier, balance) ==
    Min(RoundDiv(stake * stake_multiplier, MultScale),
        RoundDiv(balance * MAX_STAKE_PCT, MilliCent))

\* Line 108.
BelowMinStake(stake, min_stake) == stake < min_stake

\* Mutant: record_bet is called whatever place_bet answered.
Debits_unless_dry(dry_run, response_success) == ~dry_run

\* Mutant: record_bet is called in a dry run too.
Debits_on_success(dry_run, response_success) == response_success

\* Lines 129-145: record_bet is called in live mode after a successful
\* placement only.
Debits(dry_run, response_success) == ~dry_run /\ response_success

\* Lines 147-161 (bet_id, team names, market type and reasoning left out).
BetRecord(event_id, best, stake, dry_run, success) ==
    [event_id  |-> event_id,
     selection |-> best.selection,
     stake     |-> stake,
     odds      |-> best.odds,
     true_prob |-> RoundSigned(best.true_prob, 100),
     edge      |-> RoundSigned(best.edge, 100),
     dry_run   |-> dry_run,
     success   |-> success]

NoBest == [selection |-> "none", edge |-> 0, odds |-> 0, true_prob |-> 0]

NoLast ==
    [idx |-> 0, exit |-> "none", best |-> NoBest, kelly_stake |-> 0,
     consulted |-> FALSE, api_ok |-> TRUE, content |-> EmptyObject,
     approved |-> FALSE, stake |-> 0, place |-> "none"]

\* No BankrollManager call traced, no function being evaluated.
NoCall == [name |-> "none"]
NoEvaluation == [fn |-> "none"]

\* other: whether the second manager's _state is set, that state, the state
\* it got from the file, the number of its calls, of its record_bet and of
\* its record_result calls, and its latest call with where run() stood then
\* (pc, pos, and how many bets it had debited).
NoOther ==
    [cached |-> FALSE, state |-> FreshState(0), loaded |-> FreshState(0), n |-> 0,
     bets |-> 0, settled |-> 0,
     last |-> [name |-> "none", arg |-> 0, pc |-> "start", pos |-> 1, record_bet |-> 0]]

Init ==
    /\ events \in EventLists
    /\ DRY_RUN \in BOOLEAN
    /\ MAX_BETS_PER_RUN \in 0..MaxBetsSetting
    /\ llm_analyst \in {"none", "StubLLMClient", "OpenAILLMClient"}
    /\ sportsbook \in {"StubSportsbook", "LiveSportsbook", "OtherSportsbook"}
    /\ DRY_RUN => sportsbook = "StubSportsbook"
    /\ file \in FileStates
    /\ bankroll = [cached |-> FALSE, state |-> FreshState(0)]
    /\ loaded = FreshState(0)
    /\ pc = "start"
    /\ pos = 1
    /\ records = << >>
    /\ bets_placed = 0
    /\ calls = [analyse |-> 0, place_bet |-> 0, record_bet |-> 0]
    /\ last = NoLast
    /\ ledger_op = NoCall
    /\ evaluation = NoEvaluation
    /\ other = NoOther

\* Lines 41-43.
Load ==
    /\ pc = "start"
    /\ LET r == load(file, INITIAL_BANKROLL)
       IN  /\ bankroll' = [cached |-> TRUE, state |-> r.state]
           /\ file' = r.file
           /\ loaded' = r.state
    /\ pc' = "loop"
    /\ UNCHANGED <<apart, settings, pos, records, bets_placed, calls, last>>

\* Line 166, after the last event.
Return ==
    /\ pc = "loop"
    /\ pos > Len(events)
    /\ pc' = "done"
    /\ UNCHANGED <<apart, settings, file, bankroll, loaded, pos, records, bets_placed, calls, last>>

\* Lines 46-48.
BreakMaxBets ==
    /\ pc = "loop"
    /\ pos <= Len(events)
    /\ MaxBetsReached(bets_placed, MAX_BETS_PER_RUN)
    /\ pc' = "done"
    /\ last' = [NoLast EXCEPT !.idx = pos, !.exit = "break_max_bets"]
    /\ UNCHANGED <<apart, settings, file, bankroll, loaded, pos, records, bets_placed, calls>>

\* Lines 50-52.
BreakDailyLoss ==
    /\ pc = "loop"
    /\ pos <= Len(events)
    /\ ~MaxBetsReached(bets_placed, MAX_BETS_PER_RUN)
    /\ ~check_daily_loss_limit(GateState, DAILY_LOSS_LIMIT)
    /\ pc' = "done"
    /\ last' = [NoLast EXCEPT !.idx = pos, !.exit = "break_daily_loss"]
    /\ UNCHANGED <<apart, settings, file, bankroll, loaded, pos, records, bets_placed, calls>>

\* An event that passes both gates.
Considered ==
    /\ pc = "loop"
    /\ pos <= Len(events)
    /\ ~MaxBetsReached(bets_placed, MAX_BETS_PER_RUN)
    /\ check_daily_loss_limit(GateState, DAILY_LOSS_LIMIT)

\* Lines 57-59 raise ValueError, which run() does not catch.
RaiseInvalidOdds ==
    /\ Considered
    /\ ~EventOddsValid(events[pos])
    /\ pc' = "raised"
    /\ last' = [NoLast EXCEPT !.idx = pos, !.exit = "raise_odds"]
    /\ UNCHANGED <<apart, settings, file, bankroll, loaded, pos, records, bets_placed, calls>>

\* Lines 61-68.
SkipEdge ==
    /\ Considered
    /\ EventOddsValid(events[pos])
    /\ LET best == Best(events[pos])
       IN  /\ EdgeBelowThreshold(best.edge, MIN_EDGE_THRESHOLD)
           /\ last' = [NoLast EXCEPT !.idx = pos, !.exit = "skip_edge", !.best = best]
    /\ pos' = pos + 1
    /\ UNCHANGED <<apart, settings, file, bankroll, loaded, pc, records, bets_placed, calls>>

\* Lines 70-81.
SkipStake ==
    /\ Considered
    /\ EventOddsValid(events[pos])
    /\ LET best  == Best(events[pos])
           stake == KellyStake(best, RunState.balance)
       IN  /\ ~EdgeBelowThreshold(best.edge, MIN_EDGE_THRESHOLD)
           /\ StakeTooSmall(stake)
           /\ last' = [NoLast EXCEPT !.idx = pos, !.exit = "skip_stake", !.best = best,
                                     !.kelly_stake = stake]
    /\ pos' = pos + 1
    /\ UNCHANGED <<apart, settings, file, bankroll, loaded, pc, records, bets_placed, calls>>

\* An event that reaches line 86 with a positive Kelly stake.
Staked ==
    /\ Considered
    /\ EventOddsValid(events[pos])
    /\ ~EdgeBelowThreshold(Best(events[pos]).edge, MIN_EDGE_THRESHOLD)
    /\ ~StakeTooSmall(KellyStake(Best(events[pos]), RunState.balance))

\* What the iteration knows once the advisory has answered inp.
AfterAdvisory(inp) ==
    LET best     == Best(events[pos])
        kelly    == KellyStake(best, RunState.balance)
        analysis == analyse(llm_analyst, inp)
    IN  [NoLast EXCEPT
           !.idx         = pos,
           !.best        = best,
           !.kelly_stake = kelly,
           !.consulted   = TRUE,
           !.api_ok      = inp.api_ok,
           !.content     = chat(llm_analyst, inp.api_ok, inp.content),
           !.approved    = analysis.approved,
           !.stake       = IF analysis.raised \/ Rejected(analysis) THEN kelly
                           ELSE Rescaled(kelly, analysis.stake_multiplier,
                                         RunState.balance)]

Consulted == [calls EXCEPT !.analyse = @ + 1]

\* Line 88: analyse() raises (AttributeError in _parse), uncaught by run().
AdvisoryRaise ==
    /\ Staked
    /\ llm_analyst # "none"
    /\ \E inp \in AdvisoryInputs(llm_analyst) :
          /\ analyse(llm_analyst, inp).raised
          /\ last' = [AfterAdvisory(inp) EXCEPT !.exit = "raise_advisory"]
    /\ pc' = "raised"
    /\ calls' = Consulted
    /\ UNCHANGED <<apart, settings, file, bankroll, loaded, pos, records, bets_placed>>

\* Lines 97-102.
AdvisoryReject ==
    /\ Staked
    /\ llm_analyst # "none"
    /\ \E inp \in AdvisoryInputs(llm_analyst) :
          /\ ~analyse(llm_analyst, inp).raised
          /\ Rejected(analyse(llm_analyst, inp))
          /\ last' = [AfterAdvisory(inp) EXCEPT !.exit = "skip_rejected"]
    /\ pos' = pos + 1
    /\ calls' = Consulted
    /\ UNCHANGED <<apart, settings, file, bankroll, loaded, pc, records, bets_placed>>

\* Lines 104-113.
SkipMinStake ==
    /\ Staked
    /\ llm_analyst # "none"
    /\ \E inp \in AdvisoryInputs(llm_analyst) :
          /\ ~analyse(llm_analyst, inp).raised
          /\ ~Rejected(analyse(llm_analyst, inp))
          /\ BelowMinStake(AfterAdvisory(inp).stake, MIN_STAKE)
          /\ last' = [AfterAdvisory(inp) EXCEPT !.exit = "skip_min_stake"]
    /\ pos' = pos + 1
    /\ calls' = Consulted
    /\ UNCHANGED <<apart, settings, file, bankroll, loaded, pc, records, bets_placed>>

\* The candidates that reach line 121, with what is known of them there: with
\* no analyst the Kelly stake passes through, with one the advisory approved
\* and the rescaled stake is at least MIN_STAKE.
Finalized ==
    IF llm_analyst = "none"
    THEN {[NoLast EXCEPT !.idx = pos, !.best = Best(events[pos]),
                         !.kelly_stake = KellyStake(Best(events[pos]), RunState.balance),
                         !.stake = KellyStake(Best(events[pos]), RunState.balance)]}
    ELSE {AfterAdvisory(inp) : inp \in
            {x \in AdvisoryInputs(llm_analyst) :
                /\ ~analyse(llm_analyst, x).raised
                /\ ~Rejected(analyse(llm_analyst, x))
                /\ ~BelowMinStake(AfterAdvisory(x).stake, MIN_STAKE)}}

\* Lines 121-164 for a placement that returns: the ledger is debited and
\* saved if Debits, a record is appended and the counter incremented.
Emit(c, place, success) ==
    /\ last' = [c EXCEPT !.exit = "record", !.place = place]
    /\ IF Debits(DRY_RUN, success)
       THEN /\ bankroll' = [bankroll EXCEPT !.state = record_bet(@, c.stake)]
            /\ file' = save(record_bet(bankroll.state, c.stake))
       ELSE UNCHANGED <<bankroll, file>>
    /\ calls' = [calls EXCEPT
                   !.analyse    = IF c.consulted THEN @ + 1 ELSE @,
                   !.place_bet  = IF place = "dry" THEN @ ELSE @ + 1,
                   !.record_bet = IF Debits(DRY_RUN, success) THEN @ + 1 ELSE @]
    /\ records' = Append(records, BetRecord(pos, c.best, c.stake, DRY_RUN, success))
    /\ bets_placed' = bets_placed + 1
    /\ pos' = pos + 1
    /\ UNCHANGED <<apart, settings, loaded, pc>>

\* Lines 129-139.
PlaceDryRun ==
    /\ Staked
    /\ DRY_RUN
    /\ \E c \in Finalized : Emit(c, "dry", TRUE)

\* Lines 141-145, place_bet returns success=True.
PlaceAccepted ==
    /\ Staked
    /\ ~DRY_RUN
    /\ "accepted" \in PlaceOutcomes(sportsbook)
    /\ \E c \in Finalized : Emit(c, "accepted", TRUE)

\* Lines 141-145, place_bet returns success=False.
PlaceDeclined ==
    /\ Staked
    /\ ~DRY_RUN
    /\ "declined" \in PlaceOutcomes(sportsbook)
    /\ \E c \in Finalized : Emit(c, "declined", FALSE)

\* Line 141: place_bet raises, uncaught by run().
PlaceRaise ==
    /\ Staked
    /\ ~DRY_RUN
    /\ "raised" \in PlaceOutcomes(sportsbook)
    /\ \E c \in Finalized :
          /\ last' = [c EXCEPT !.exit = "raise_place", !.place = "raised"]
          /\ calls' = [calls EXCEPT
                         !.analyse   = IF c.consulted THEN @ + 1 ELSE @,
                         !.place_bet = @ + 1]
    /\ pc' = "raised"
    /\ UNCHANGED <<apart, settings, file, bankroll, loaded, pos, records, bets_placed>>

Next ==
    \/ Load
    \/ Return
    \/ BreakMaxBets
    \/ BreakDailyLoss
    \/ RaiseInvalidOdds
    \/ SkipEdge
    \/ SkipStake
    \/ AdvisoryRaise
    \/ AdvisoryReject
    \/ SkipMinStake
    \/ PlaceDryRun
    \/ PlaceAccepted
    \/ PlaceDeclined
    \/ PlaceRaise

Spec == Init /\ [][Next]_vars

\* ------------------------------------------------------------------------
\* Properties of Executor.run
\* ------------------------------------------------------------------------

\* What no gated or skipped event may touch.
Effects == <<bankroll, file, records, bets_placed, calls>>

\* The run is at an event it has not yet looked at.
AtEvent == pc = "loop" /\ pos <= Len(events)

\* Sum of the stakes of the records that satisfy keep.
StakeSum(recs, keep) ==
    LET s[k \in 0..Len(recs)] ==
            IF k = 0 THEN 0
            ELSE s[k - 1] + (IF keep[k] THEN recs[k].stake ELSE 0)
    IN  s[Len(recs)]

\* C1: the daily-loss gate is evaluated before every event: from an event at
\* which daily_loss >= DAILY_LOSS_LIMIT the only step is the end of the run,
\* and neither that step nor anything after the end calls the advisory or the
\* sportsbook, changes the ledger or the file, or emits a record.
C1_DailyLossGate ==
    [][ ((AtEvent /\ bankroll.state.daily_loss >= DAILY_LOSS_LIMIT) \/ pc = "done")
          => (pc' = "done" /\ UNCHANGED Effects) ]_vars

C1_Witness ==
    /\ pc = "done"
    /\ pos <= Len(events)
    /\ bets_placed < MAX_BETS_PER_RUN
    /\ bankroll.state.daily_loss >= DAILY_LOSS_LIMIT
    /\ records = << >>
    /\ calls = [analyse |-> 0, place_bet |-> 0, record_bet |-> 0]

\* C2: run() returns at most MAX_BETS_PER_RUN records; the counter counts the
\* emitted records, failed placements included; and from an event reached with
\* the counter at MAX_BETS_PER_RUN the only step is the end of the run, with no
\* advisory call, no placement and no record.
C2_MaxBetsPerRun ==
    /\ [](Len(records) <= MAX_BETS_PER_RUN /\ bets_placed = Len(records))
    /\ [][ (AtEvent /\ Len(records) >= MAX_BETS_PER_RUN)
             => (pc' = "done" /\ UNCHANGED Effects) ]_vars

C2_Witness ==
    /\ pc = "done"
    /\ pos <= Len(events)
    /\ MAX_BETS_PER_RUN > 0
    /\ Len(records) = MAX_BETS_PER_RUN
    /\ \E k \in 1..Len(records) : ~records[k].success

\* C3: a skipped candidate mutates nothing.  In a step that looks at event pos,
\* if the best edge is below MIN_EDGE_THRESHOLD, or the computed stake is 0, or
\* the advisory did not approve, or the rescaled stake is below MIN_STAKE, then
\* the ledger in memory, the file, the records and the counter are unchanged
\* and neither place_bet nor record_bet is called.
C3_SkipMutatesNothing ==
    [][ (/\ AtEvent
         /\ last'.idx = pos
         /\ \/ /\ EventOddsValid(events[pos])
               /\ Best(events[pos]).edge < MIN_EDGE_THRESHOLD
            \/ /\ EventOddsValid(events[pos])
               /\ compute_stake(bankroll.state.balance, Best(events[pos]).true_prob,
                                Best(events[pos]).odds, KELLY_FRACTION,
                                MAX_STAKE_PCT, MIN_STAKE) = 0
            \/ last'.consulted /\ ~last'.approved
            \/ last'.consulted /\ last'.approved /\ last'.stake < MIN_STAKE)
          => (/\ UNCHANGED <<bankroll, file, records, bets_placed>>
              /\ calls'.place_bet = calls.place_bet
              /\ calls'.record_bet = calls.record_bet) ]_vars

C3_Witness ==
    /\ ~DRY_RUN
    /\ pc = "done"
    /\ last.idx = 2
    /\ last.consulted /\ last.approved /\ last.stake < MIN_STAKE
    /\ Len(records) = 1
    /\ bankroll.state = record_bet(loaded, records[1].stake)
    /\ file = save(bankroll.state)

\* The ledger after a run differs from what load() returned by the records
\* that satisfy keep: balance down and total_wagered up by the sum of their
\* stakes, bets_today up by their number, record_bet called once for each.
LedgerMatches(keep) ==
    LET total == StakeSum(records, keep)
        count == Cardinality({k \in 1..Len(records) : keep[k]})
    IN  /\ bankroll.state.balance = loaded.balance - total
        /\ bankroll.state.total_wagered = loaded.total_wagered + total
        /\ bankroll.state.bets_today = loaded.bets_today + count
        /\ calls.record_bet = count

\* C4 as claimed: every record with success = true has its record_bet call, so
\* the ledger moves by the stakes of the success records.
C4_SuccessRecordsDebited ==
    LedgerMatches([k \in 1..Len(records) |-> records[k].success])

\* C4, amended: every record with success = true and dry_run = false has
\* exactly one record_bet call with its stake, made in the step that emits it;
\* over a run the ledger balance goes down by, and total_wagered up by, the
\* sum of the stakes of those records, and bets_today up by their number.
C4_LiveSuccessRecordsDebited ==
    /\ [] LedgerMatches([k \in 1..Len(records) |->
                            records[k].success /\ ~records[k].dry_run])
    /\ [][ IF /\ Len(records') = Len(records) + 1
              /\ records'[Len(records')].success
              /\ ~records'[Len(records')].dry_run
           THEN /\ bankroll'.state.balance =
                       bankroll.state.balance - records'[Len(records')].stake
                /\ calls'.record_bet = calls.record_bet + 1
                /\ records'[Len(records')].event_id = pos
           ELSE pc = "start" \/ UNCHANGED <<bankroll, file>> ]_vars

C4_Witness ==
    /\ ~DRY_RUN
    /\ pc = "done"
    /\ Len(records) = 2
    /\ records[1].success
    /\ ~records[2].success
    /\ bankroll.state.balance = loaded.balance - records[1].stake

\* C5: in a dry run neither record_bet nor place_bet is ever called, the
\* ledger (in memory and on file) stays what load() returned, and every record
\* has dry_run = true and success = true.
C5_DryRunTouchesNothing ==
    DRY_RUN =>
        /\ calls.record_bet = 0
        /\ calls.place_bet = 0
        /\ pc # "start" => (bankroll.state = loaded /\ file = save(loaded))
        /\ \A k \in 1..Len(records) : records[k].dry_run /\ records[k].success

C5_Witness ==
    /\ DRY_RUN
    /\ pc = "done"
    /\ Len(records) = 2
    /\ bankroll.state = loaded

\* C6 as claimed: when the placement collaborator rejects or fails a wager in
\* live mode, run() emits a record with success = false for that wager, does
\* not debit the ledger, and goes on to the next event.
C6_PlacementFailureRecorded ==
    (~DRY_RUN /\ last.place \in {"declined", "raised"}) =>
        /\ pc # "raised"
        /\ pos = last.idx + 1
        /\ Len(records) > 0
        /\ records[Len(records)].event_id = last.idx
        /\ ~records[Len(records)].success
        /\ calls.record_bet = Cardinality({k \in 1..Len(records) : records[k].success})

\* C7 as claimed: when the advisory API call fails, the candidate gets
\* approved = false and is skipped: no placement, no record, no debit, and the
\* run goes on to the next event.
C7_AdvisoryFailureRejects ==
    (last.consulted /\ ~last.api_ok) =>
        /\ ~last.approved
        /\ last.place = "none"
        /\ pc # "raised"
        /\ pos = last.idx + 1
        /\ \A k \in 1..Len(records) : records[k].event_id # last.idx

\* A reply that is not a JSON object with a boolean approved, a numeric
\* confidence and a numeric stake_multiplier.
Malformed(content) ==
    \/ content.kind # "json_object"
    \/ content.approved \notin {"true", "false"}
    \/ content.confidence # "number"
    \/ content.mult_kind # "number"

\* C8 as claimed: a reply that does not parse into the shape yields
\* approved = False, and analyse() does not raise.
C8_MalformedReplyRejected ==
    (last.consulted /\ Malformed(last.content)) =>
        (~last.approved /\ pc # "raised")

\* C9 as claimed: no exception raised while processing one event ends the
\* run: run() is never left through an exception.
C9_ExceptionDoesNotAbort == pc # "raised"

\* The edges of the three outcomes of an event, in the order home, draw, away,
\* with the names, true probabilities and prices they belong to.
Outcomes(event) ==
    LET p == PoissonResultOf(event)
    IN  << [selection |-> "home", true_prob |-> p.home_win_prob, odds |-> event.home_odds,
            edge |-> p.home_win_prob - implied_probability(event.home_odds)],
           [selection |-> "draw", true_prob |-> p.draw_prob, odds |-> event.draw_odds,
            edge |-> p.draw_prob - implied_probability(event.draw_odds)],
           [selection |-> "away", true_prob |-> p.away_win_prob, odds |-> event.away_odds,
            edge |-> p.away_win_prob - implied_probability(event.away_odds)] >>

\* The first outcome whose edge is maximal.
FirstMaximal(o) ==
    CHOOSE x \in {o[k] : k \in 1..3} :
        \E k \in 1..3 :
            /\ x = o[k]
            /\ \A m \in 1..3 : o[m].edge <= o[k].edge
            /\ \A m \in 1..3 : m < k => o[m].edge < o[k].edge

\* C10: the selection made for an event is the outcome of maximal edge, the
\* first of them in the order home, draw, away when several are maximal; a
\* record carries the selection, price, true probability and edge (the last
\* two rounded to four decimals) of that outcome, and its unrounded edge is
\* at least MIN_EDGE_THRESHOLD.
C10_BestSelection ==
    /\ last.best # NoBest => last.best = FirstMaximal(Outcomes(events[last.idx]))
    /\ \A k \in 1..Len(records) :
          LET best == FirstMaximal(Outcomes(events[records[k].event_id]))
          IN  /\ records[k].selection = best.selection
              /\ records[k].odds = best.odds
              /\ records[k].true_prob = RoundSigned(best.true_prob, 100)
              /\ records[k].edge = RoundSigned(best.edge, 100)
              /\ best.edge >= MIN_EDGE_THRESHOLD

C10_Witness ==
    /\ pc = "done"
    /\ Len(records) = 1
    /\ records[1].selection = "away"
    /\ last.idx = 2
    /\ events[2] = TieEvent
    /\ last.best.selection = "home"
    /\ Outcomes(TieEvent)[1].edge = Outcomes(TieEvent)[3].edge

\* The stake_multiplier of a reply, clamped into [0, 2]; 1.0 when the reply
\* has none.
ClampedMultiplier(content) ==
    IF content.mult_kind # "number" THEN MultScale
    ELSE IF content.mult < 0 THEN 0
    ELSE IF content.mult > 2 * MultScale THEN 2 * MultScale
    ELSE content.mult

\* round(balance * MAX_STAKE_PCT, 2)
Ceiling(balance) == RoundDiv(balance * MAX_STAKE_PCT, MilliCent)

Debited(recs) == [k \in 1..Len(recs) |-> ~recs[k].dry_run /\ recs[k].success]

\* C22: in a live run, the stake compute_stake returns for a candidate is
\* computed from the balance as it stands at that event: the balance load()
\* returned less the stakes debited for the earlier events of the run.
C22_StakeFromCurrentBalance ==
    [][ (AtEvent /\ ~DRY_RUN /\ last'.idx = pos
             /\ last'.exit \notin {"break_max_bets", "break_daily_loss",
                                    "raise_odds", "skip_edge"}) =>
          last'.kelly_stake =
              compute_stake(loaded.balance - StakeSum(records, Debited(records)),
                            last'.best.true_prob, last'.best.odds,
                            KELLY_FRACTION, MAX_STAKE_PCT, MIN_STAKE) ]_vars

\* Two equal events in a live run on a balance of 1000.00: the first stake is
\* 50.00, the second 47.50, which is what 950.00 gives and not what 1000.00
\* gives.
C22_Witness ==
    /\ ~DRY_RUN
    /\ llm_analyst = "none"
    /\ loaded.balance = 100000
    /\ events = <<HomeEvent, HomeEvent>>
    /\ Len(records) = 2
    /\ records[1].stake = 5000
    /\ records[1].success
    /\ records[2].stake = 4750
    /\ KellyStake(Best(HomeEvent), loaded.balance) = 5000
    /\ KellyStake(Best(HomeEvent), loaded.balance - 5000) = 4750

\* C24 as claimed: run() ends by returning, for every event list: no
\* iteration leaves it by an exception; it looks at the events in list order, each at
\* most once; the records are in the order of their events, at most one for
\* an event; and the list returned is empty when no event qualified.
C24_TerminatesInOrder ==
    /\ last.exit \notin {"raise_odds", "raise_advisory", "raise_place"}
    /\ pc \in {"start", "loop", "done"}
    /\ pos <= Len(events) + 1
    /\ last.idx <= pos
    /\ \A k \in 1..Len(records) : records[k].event_id < pos
    /\ \A k, m \in 1..Len(records) : k < m => records[k].event_id < records[m].event_id
    /\ (pc = "done" /\ \A k \in 1..Len(events) : events[k] \in {SkipEvent, BadEvent})
           => records = << >>

\* ------------------------------------------------------------------------
\* The pure functions of kelly.py and poisson.py, called on their own
\* ------------------------------------------------------------------------

\* run() at rest: what the other specifications hold the variables of run() at.
NoRun ==
    /\ events = << >>
    /\ DRY_RUN = TRUE
    /\ MAX_BETS_PER_RUN = 0
    /\ llm_analyst = "none"
    /\ sportsbook = "StubSportsbook"
    /\ loaded = FreshState(0)
    /\ pc = "done"
    /\ pos = 1
    /\ records = << >>
    /\ bets_placed = 0
    /\ calls = [analyse |-> 0, place_bet |-> 0, record_bet |-> 0]
    /\ last = NoLast
    /\ other = NoOther

run_vars == <<settings, loaded, pc, pos, records, bets_placed, calls, last, other>>

\* Arguments of compute_stake: balances 1000.00, 100.14, 20.00 and 19.99;
\* among them the call of test_compute_stake_basic.
StakeInputs ==
    [bankroll      : {100000, 10014, 2000, 1999},
     true_prob     : {400000, 500000, 550000, 900000},
     decimal_odds  : {100, 150, 200},
     kelly_frac    : {KELLY_FRACTION, 100},
     max_stake_pct : {MAX_STAKE_PCT},
     min_stake     : {MIN_STAKE, 500}]

\* Arguments of fractional_kelly; 1.5 is not a probability, but the function
\* takes any float.
KellyInputs ==
    [true_prob    : {0, 250000, 400000, 500000, 550000, 900000, 1000000, 1500000},
     decimal_odds : {50, 100, 110, 150, 200, 400, 1000},
     fraction     : {KELLY_FRACTION, 100}]

\* Rates between 0 and 10, in tenths, and a negative one, which poisson_pmf
\* takes like 0.
PoissonRates == {0 - 10, 0, 1, 5, 10, 15, 20, 25, 30, 40, 50, 60, 80, 100}

PoissonInputs == [lam_home : PoissonRates, lam_away : PoissonRates]

\* Odds of devig: the prices of the tests (2.10, 3.40, 3.60 and 3.0), a short
\* and a long price, and the two kinds of invalid odds.
DevigOdds == {0 - 150, 0, 110, 210, 300, 340, 360, 1000}

DevigInputs == [home_odds : DevigOdds, draw_odds : DevigOdds, away_odds : DevigOdds]

\* Ledgers whose balance is not a whole number of cents (0.006, 2.006), with
\* whole ones (0.01, 1.00, 10.00), an empty and an overdrawn one, in 1e-3
\* cent; the settings at their defaults and at full Kelly, a ceiling of the
\* whole balance and a minimum stake of 0.001.
DebitInputs ==
    [balance       : {0 - 500000, 0, 600, 1000, 100000, 200600, 1000000},
     true_prob     : {550000, 900000},
     decimal_odds  : {200, 300},
     kelly_frac    : {KELLY_FRACTION, 100},
     max_stake_pct : {MAX_STAKE_PCT, 1000},
     min_stake     : {MIN_STAKE * MilliCent, 100}]

Call(fn, args) == [fn |-> fn, args |-> args, returned |-> FALSE, result |-> 0]

InitFunctions ==
    /\ NoRun
    /\ file = NoFile
    /\ bankroll = [cached |-> FALSE, state |-> FreshState(0)]
    /\ ledger_op = NoCall
    /\ evaluation \in {Call("compute_stake", a) : a \in StakeInputs}
                      \cup {Call("fractional_kelly", a) : a \in KellyInputs}
                      \cup {Call("compute_probabilities", a) : a \in PoissonInputs}
                      \cup {Call("devig", a) : a \in DevigInputs}
                      \cup {Call("stake_and_debit", a) : a \in DebitInputs}

Returns(result) ==
    /\ ~evaluation.returned
    /\ evaluation' = [evaluation EXCEPT !.returned = TRUE, !.result = result]
    /\ UNCHANGED <<run_vars, file, bankroll, ledger_op>>

CallComputeStake ==
    /\ evaluation.fn = "compute_stake"
    /\ LET a == evaluation.args
       IN  Returns(compute_stake(a.bankroll, a.true_prob, a.decimal_odds,
                                 a.kelly_frac, a.max_stake_pct, a.min_stake))

\* fractional_kelly, and the kelly_fraction it calls.
CallFractionalKelly ==
    /\ evaluation.fn = "fractional_kelly"
    /\ LET a == evaluation.args
       IN  Returns([kelly_fraction   |-> kelly_fraction(a.true_prob, a.decimal_odds),
                    fractional_kelly |-> fractional_kelly(a.true_prob, a.decimal_odds,
                                                          a.fraction)])

CallComputeProbabilities ==
    /\ evaluation.fn = "compute_probabilities"
    /\ Returns(compute_probabilities(evaluation.args.lam_home, evaluation.args.lam_away))

CallDevig ==
    /\ evaluation.fn = "devig"
    /\ LET a == evaluation.args
       IN  Returns(devig(a.home_odds, a.draw_odds, a.away_odds))

\* Lines 70-81 and 145 of run() with no advisory, on a candidate and a ledger
\* balance: the stake of compute_stake, no bet when it is <= 0, and otherwise
\* the balance record_bet leaves.
CallStakeAndDebit ==
    /\ evaluation.fn = "stake_and_debit"
    /\ LET a     == evaluation.args
           stake == compute_stake_subcent(a.balance, a.true_prob, a.decimal_odds,
                                          a.kelly_frac, a.max_stake_pct, a.min_stake)
       IN  Returns([placed  |-> ~StakeTooSmall(stake),
                    stake   |-> stake,
                    balance |-> IF StakeTooSmall(stake) THEN a.balance
                                ELSE a.balance - stake * MilliCent])

NextFunctions ==
    \/ CallComputeStake
    \/ CallFractionalKelly
    \/ CallComputeProbabilities
    \/ CallDevig
    \/ CallStakeAndDebit

SpecFunctions == InitFunctions /\ [][NextFunctions]_vars

Returned(fn) == evaluation.fn = fn /\ evaluation.returned

\* C11 as claimed: compute_stake returns an amount that is at most
\* bankroll * max_stake_pct, also after the rounding to two decimals; it
\* returns 0 when the capped amount before rounding is below min_stake, and
\* otherwise min(kelly_frac * kelly_fraction * bankroll, bankroll *
\* max_stake_pct) rounded to two decimals; 25.00 for the call of the test.
C11_StakeWithinCap ==
    Returned("compute_stake") =>
        LET a      == evaluation.args
            cap    == a.bankroll * a.max_stake_pct
            raw    == FracOfBankroll(
                          RoundDiv(a.kelly_frac * kelly_fraction(a.true_prob, a.decimal_odds),
                                   100),
                          a.bankroll)
            capped == IF raw <= cap THEN raw ELSE cap
        IN  /\ evaluation.result * MilliCent <= cap
            /\ capped < a.min_stake * MilliCent => evaluation.result = 0
            /\ capped >= a.min_stake * MilliCent =>
                   evaluation.result = RoundDiv(capped, MilliCent)
            /\ a = [bankroll |-> 100000, true_prob |-> 550000, decimal_odds |-> 200,
                    kelly_frac |-> 25, max_stake_pct |-> 50, min_stake |-> 100]
                   => evaluation.result = 2500

\* C19: kelly_fraction(p, odds) lies in [0, 1]; with b = odds - 1 it is
\* (b*p - (1 - p)) / b when that value lies in [0, 1] (here: the nearest
\* multiple of 1e-6); it is 0 when odds <= 1 or p * odds <= 1; and
\* fractional_kelly is fraction times it.
C19_KellyFractionRange ==
    Returned("fractional_kelly") =>
        LET p    == evaluation.args.true_prob
            odds == evaluation.args.decimal_odds
            b    == odds - OddsScale
            num  == b * p - OddsScale * (PScale - p)
            f    == evaluation.result.kelly_fraction
            ff   == evaluation.result.fractional_kelly
        IN  /\ 0 <= f /\ f <= PScale
            /\ (b > 0 /\ 0 <= num /\ num <= b * PScale) =>
                   (2 * (f * b - num) <= b /\ 2 * (num - f * b) <= b)
            /\ (odds <= OddsScale \/ p * odds <= PScale * OddsScale) => f = 0
            /\ 2 * (100 * ff - evaluation.args.fraction * f) <= 100
            /\ 2 * (evaluation.args.fraction * f - 100 * ff) <= 100

\* Breakeven, a negative edge behind the clamp, and a value cut to 1 have all
\* been evaluated; here the negative edge (p = 0.25 at odds 2.0).
C19_Witness ==
    /\ Returned("fractional_kelly")
    /\ evaluation.args.true_prob = 250000
    /\ evaluation.args.decimal_odds = 200
    /\ evaluation.result.kelly_fraction = 0
    /\ kelly_fraction(500000, 200) = 0
    /\ kelly_fraction(1500000, 200) = PScale
    /\ kelly_fraction(550000, 200) = 100000

\* 1e-4, in PScale units.
SumTolerance == PScale \div 10000

\* The most by which the sum of the model's grid, whose cells are rounded to
\* 1e-6, may differ from the sum of the floats.
GridRounding == (max_goals + 1) * (max_goals + 1)

\* C20 as claimed: for rates between 0 and 10, home + draw + away and
\* over + under are each within 1e-4 of 1 and at most 1.
C20_SumsNearOne ==
    Returned("compute_probabilities") =>
        LET r      == evaluation.result
            sum1x2 == r.home_win_prob + r.draw_prob + r.away_win_prob
            sumou  == r.over_prob + r.under_prob
        IN  /\ PScale - sum1x2 <= SumTolerance + GridRounding
            /\ PScale - sumou <= SumTolerance + GridRounding
            /\ sum1x2 <= PScale + GridRounding
            /\ sumou <= PScale + GridRounding

\* C21: devig(o1, o2, o3) fails with the ValueError of implied_probability
\* exactly when one of the odds is <= 0; otherwise its three results sum to 1
\* (each quotient is off by at most half a unit of the grid),
\* are proportional to 1/o1, 1/o2, 1/o3 (the products p_k * o_k agree up to
\* the rounding of the grid), and each is 1/3 when the three odds are equal.
C21_Devig ==
    Returned("devig") =>
        LET a    == evaluation.args
            r    == evaluation.result
            o    == <<a.home_odds, a.draw_odds, a.away_odds>>
            p    == <<r.home, r.draw, r.away>>
            sum  == p[1] + p[2] + p[3]
            near(x, y, slack) == x - y <= slack /\ y - x <= slack
        IN  /\ r.raised <=> (\E k \in 1..3 : o[k] <= 0)
            /\ ~r.raised =>
                  /\ near(sum, PScale, 2)
                  /\ \A k \in 1..3 : p[k] > 0
                  /\ \A k, m \in 1..3 :
                        near(p[k] * o[k], p[m] * o[m],
                             o[k] + o[m] + (p[k] * o[k]) \div (100 * 1000))
                  /\ (o[1] = o[2] /\ o[2] = o[3]) =>
                        \A k \in 1..3 : p[k] = PScale \div 3

\* The call of test_devig_sums_to_one has returned three different
\* probabilities, the shortest price with the largest.
C21_Witness ==
    /\ Returned("devig")
    /\ evaluation.args = [home_odds |-> 210, draw_odds |-> 340, away_odds |-> 360]
    /\ ~evaluation.result.raised
    /\ evaluation.result.home > evaluation.result.draw
    /\ evaluation.result.draw > evaluation.result.away

\* The mass of the truncated grid: the sum of all its cells.
GridMass(lam_home, lam_away) ==
    GridSum(score_matrix(lam_home, lam_away),
            [i \in 0..max_goals |-> [j \in 0..max_goals |-> TRUE]])

\* C29: compute_probabilities puts every cell of the truncated grid into
\* exactly one of home, draw, away and into exactly one of over, under, so
\* home + draw + away = over + under = the mass of the grid, for any rates;
\* a team with a rate <= 0 has all its mass on 0 goals, so it cannot win and
\* the other side's distribution is the whole grid; and for rates (0, 0)
\* draw = 1, under = 1 and home = away = over = 0.
C29_Partition ==
    Returned("compute_probabilities") =>
        LET a      == evaluation.args
            r      == evaluation.result
            matrix == score_matrix(a.lam_home, a.lam_away)
        IN  /\ r.home_win_prob + r.draw_prob + r.away_win_prob
                   = GridMass(a.lam_home, a.lam_away)
            /\ r.over_prob + r.under_prob = GridMass(a.lam_home, a.lam_away)
            /\ a.lam_home <= 0 =>
                  /\ \A i \in 1..max_goals : \A j \in 0..max_goals : matrix[i][j] = 0
                  /\ r.home_win_prob = 0
                  /\ r.draw_prob = matrix[0][0]
            /\ a.lam_away <= 0 =>
                  /\ \A i \in 0..max_goals : \A j \in 1..max_goals : matrix[i][j] = 0
                  /\ r.away_win_prob = 0
                  /\ r.draw_prob = matrix[0][0]
            /\ (a.lam_home = 0 /\ a.lam_away = 0) =>
                  r = [home_win_prob |-> 0, draw_prob |-> PScale, away_win_prob |-> 0,
                       over_prob |-> 0, under_prob |-> PScale]

\* compute_probabilities(0, 0) has returned, and so has a call whose grid has
\* lost mass: at rates (3.0, 3.0) the five results are all positive and the
\* two sums agree below 1.
C29_Witness ==
    /\ Returned("compute_probabilities")
    /\ evaluation.args = [lam_home |-> 0, lam_away |-> 0]
    /\ evaluation.result.draw_prob = PScale
    /\ LET r == compute_probabilities(30, 30)
       IN  /\ r.home_win_prob > 0 /\ r.away_win_prob > 0 /\ r.over_prob > r.under_prob
           /\ r.over_prob + r.under_prob < PScale

\* C27 as claimed: with 0 <= MAX_STAKE_PCT <= 1, MIN_STAKE > 0 and a balance
\* >= 0, the stake run() debits is at most the balance before the debit, so
\* the balance is still >= 0 after it; and with a balance <= 0 no bet is
\* placed.
C27_StakeWithinBalance ==
    Returned("stake_and_debit") =>
        LET a == evaluation.args
            r == evaluation.result
        IN  (0 <= a.max_stake_pct /\ a.max_stake_pct <= 1000 /\ a.min_stake > 0) =>
              /\ (a.balance >= 0 /\ r.placed) => r.stake * MilliCent <= a.balance
              /\ a.balance >= 0 => r.balance >= 0
              /\ a.balance <= 0 => ~r.placed

\* ------------------------------------------------------------------------
\* BankrollManager on its own: load, record_bet and record_result called in
\* any order, the process interrupted in the middle of a call, a new
\* BankrollManager constructed on the same file
\* ------------------------------------------------------------------------

\* Most calls of load, record_bet and record_result in one behaviour.
MaxOps == 3

\* A JSON list.
JsonOtherFile == [exists |-> TRUE, kind |-> "json_other", data |-> << >>]
\* {"balance": 1000.0}
MissingFieldFile ==
    [exists |-> TRUE, kind |-> "json_object", data |-> << <<"balance", INITIAL_BANKROLL>> >>]
\* A saved ledger with one more member, "version".
ExtraFieldFile ==
    [exists |-> TRUE, kind |-> "json_object",
     data |-> Append(asdict(LowLedger), <<"version", 1>>)]
NotUtf8File == [exists |-> TRUE, kind |-> "not_utf8", data |-> << >>]
TooDeepFile == [exists |-> TRUE, kind |-> "too_deep", data |-> << >>]

LedgerFiles ==
    {NoFile, CorruptFile, JsonOtherFile, MissingFieldFile, ExtraFieldFile,
     NotUtf8File, TooDeepFile, save(UnusedLedger), save(LowLedger)}

\* Arguments of record_bet and of record_result, in cents.
Stakes == {2500, 5000}
Results == {0 - 2500, 0, 4500}

NoState == FreshState(0)

\* ledger_op:
\*   name, arg    the call: "load", "record_bet", "record_result"; "none"
\*                after the process or the file was touched from outside
\*   step         "mutated" (lines 64-66 or 72-75 done), "opened" (line 54
\*                done: the file is truncated), "returned", "raised"
\*   had_cache    whether _state was set when the call began
\*   start        the state the call began with (self._state or self.load())
\*   file_before  the file then
\*   prev         the call that returned right before this one
\*   saved        the state the last completed save() of a mutation wrote, if
\*                the file has not been touched since
\*   crash        the last interrupted mutation: the state before it, whether
\*                the file held that state, the state it was writing; pending
\*                until the next load()
\*   after_crash  for a load: it is the first one after that interruption
\*   n            calls so far
\*   seed         the calls since load() last seeded a fresh ledger: whether
\*                that happened, the state they led to, the sum of the
\*                stakes and the number of record_bet calls among them
NoPrev == [name |-> "none", arg |-> 0, start |-> NoState]

NoCrash == [pending |-> FALSE, was_saved |-> FALSE, committed |-> NoState, after |-> NoState]

NoSeed == [fresh |-> FALSE, of |-> NoState, stakes |-> 0, bets |-> 0]

Idle ==
    [name |-> "none", arg |-> 0, step |-> "returned", had_cache |-> FALSE,
     start |-> NoState, file_before |-> NoFile, prev |-> NoPrev,
     saved |-> [known |-> FALSE, state |-> NoState],
     crash |-> NoCrash, after_crash |-> FALSE, n |-> 0, seed |-> NoSeed]

InitLedger ==
    /\ NoRun
    /\ evaluation = NoEvaluation
    /\ file \in LedgerFiles
    /\ bankroll = [cached |-> FALSE, state |-> NoState]
    /\ ledger_op = Idle

\* No call is in progress and one more may be made.
Ready == ledger_op.step = "returned" /\ ledger_op.n < MaxOps

\* The call just finished, for the next call's prev.
Finished ==
    IF ledger_op.name \in {"record_bet", "record_result"}
    THEN [name |-> ledger_op.name, arg |-> ledger_op.arg, start |-> ledger_op.start]
    ELSE NoPrev

\* The history once load() has returned state: it goes on when that is the
\* state the calls so far led to, begins anew when it is the fresh ledger of
\* lines 33-35 and 48-50, and is unknown otherwise.
SeedAfterLoad(state) ==
    IF ledger_op.seed.fresh /\ state = ledger_op.seed.of THEN ledger_op.seed
    ELSE IF state = FreshState(INITIAL_BANKROLL)
         THEN [fresh |-> TRUE, of |-> state, stakes |-> 0, bets |-> 0]
         ELSE NoSeed

\* The history once a call with this argument has led to the state mutated.
SeedAfterCall(seed, name, arg, mutated) ==
    IF ~seed.fresh THEN NoSeed
    ELSE [fresh  |-> TRUE,
          of     |-> mutated,
          stakes |-> IF name = "record_bet" THEN seed.stakes + arg ELSE seed.stakes,
          bets   |-> IF name = "record_bet" THEN seed.bets + 1 ELSE seed.bets]

\* Lines 29-50.
CallLoad ==
    /\ Ready
    /\ LET r == load(file, INITIAL_BANKROLL)
       IN  /\ bankroll' = IF r.raised THEN bankroll
                          ELSE [cached |-> TRUE, state |-> r.state]
           /\ file' = r.file
           /\ ledger_op' =
                 [ledger_op EXCEPT
                    !.name        = "load",
                    !.arg         = 0,
                    !.step        = IF r.raised THEN "raised" ELSE "returned",
                    !.had_cache   = bankroll.cached,
                    !.start       = bankroll.state,
                    !.file_before = file,
                    !.prev        = NoPrev,
                    !.crash       = [@ EXCEPT !.pending = FALSE],
                    !.after_crash = ledger_op.crash.pending,
                    !.n           = @ + 1,
                    !.seed        = IF r.raised THEN @ ELSE SeedAfterLoad(r.state)]
    /\ UNCHANGED <<run_vars, evaluation>>

\* state = self._state or self.load()
Resolved ==
    IF bankroll.cached
    THEN [state |-> bankroll.state, file |-> file, raised |-> FALSE]
    ELSE load(file, INITIAL_BANKROLL)

\* Lines 63-66 and 71-75: the state is resolved and mutated in memory.
Mutate(name, arg, mutated) ==
    /\ Ready
    /\ bankroll' = IF Resolved.raised THEN bankroll
                   ELSE [cached |-> TRUE, state |-> mutated]
    /\ file' = Resolved.file
    /\ ledger_op' =
          [ledger_op EXCEPT
             !.name        = name,
             !.arg         = arg,
             !.step        = IF Resolved.raised THEN "raised" ELSE "mutated",
             !.had_cache   = bankroll.cached,
             !.start       = Resolved.state,
             !.file_before = Resolved.file,
             !.prev        = Finished,
             !.crash       = IF bankroll.cached THEN @ ELSE [@ EXCEPT !.pending = FALSE],
             !.after_crash = FALSE,
             !.n           = @ + 1,
             !.seed        = IF Resolved.raised THEN @
                             ELSE SeedAfterCall(IF bankroll.cached THEN @
                                                ELSE SeedAfterLoad(Resolved.state),
                                                name, arg, mutated)]
    /\ UNCHANGED <<run_vars, evaluation>>

CallRecordBet ==
    \E stake \in Stakes :
        Mutate("record_bet", stake, record_bet(Resolved.state, stake))

CallRecordResult ==
    \E profit_loss \in Results :
        Mutate("record_result", profit_loss, record_result(Resolved.state, profit_loss))

\* Lines 53-54 of save(): open(filepath, "w") truncates the file.
SaveOpen ==
    /\ ledger_op.step = "mutated"
    /\ file' = CorruptFile
    /\ ledger_op' = [ledger_op EXCEPT !.step = "opened", !.saved = [@ EXCEPT !.known = FALSE]]
    /\ UNCHANGED <<run_vars, evaluation, bankroll>>

\* Lines 55-56 of save(), and the return of record_bet or record_result.
SaveDump ==
    /\ ledger_op.step = "opened"
    /\ file' = save(bankroll.state)
    /\ ledger_op' = [ledger_op EXCEPT
                       !.step  = "returned",
                       !.saved = [known |-> TRUE, state |-> bankroll.state]]
    /\ UNCHANGED <<run_vars, evaluation, bankroll>>

\* The process is interrupted inside record_bet or record_result: memory is
\* lost, the file stays as it is, and a new process constructs a
\* BankrollManager on it.
Interrupt ==
    /\ ledger_op.step \in {"mutated", "opened"}
    /\ bankroll' = [cached |-> FALSE, state |-> NoState]
    /\ ledger_op' =
          [ledger_op EXCEPT
             !.name  = "none",
             !.step  = "returned",
             !.prev  = NoPrev,
             !.crash = [pending   |-> TRUE,
                        was_saved |-> ledger_op.file_before = save(ledger_op.start),
                        committed |-> ledger_op.start,
                        after     |-> bankroll.state]]
    /\ UNCHANGED <<run_vars, evaluation, file>>

\* Line 23: a new BankrollManager on the same file, between calls or after a
\* call raised.
NewManager ==
    /\ ledger_op.step \in {"returned", "raised"}
    /\ ledger_op.name # "none"
    /\ bankroll' = [cached |-> FALSE, state |-> NoState]
    /\ ledger_op' = [ledger_op EXCEPT !.name = "none", !.step = "returned", !.prev = NoPrev]
    /\ UNCHANGED <<run_vars, evaluation, file>>

\* The file is deleted from outside while a BankrollManager holds a state.
FileRemoved ==
    /\ ledger_op.step = "returned"
    /\ bankroll.cached
    /\ file.exists
    /\ file' = NoFile
    /\ ledger_op' = [ledger_op EXCEPT !.name = "none", !.prev = NoPrev,
                                      !.saved = [@ EXCEPT !.known = FALSE]]
    /\ UNCHANGED <<run_vars, evaluation, bankroll>>

NextLedger ==
    \/ CallLoad
    \/ CallRecordBet
    \/ CallRecordResult
    \/ SaveOpen
    \/ SaveDump
    \/ Interrupt
    \/ NewManager
    \/ FileRemoved

SpecLedger == InitLedger /\ [][NextLedger]_vars

\* ------------------------------------------------------------------------
\* Properties of BankrollManager
\* ------------------------------------------------------------------------

Done(name) == ledger_op.name = name /\ ledger_op.step = "returned"

\* The text json.dump writes for a state: the six members, in field order.
Written(state) ==
    [exists |-> TRUE, kind |-> "json_object",
     data |-> << <<"balance", state.balance>>,
                 <<"initial_balance", state.initial_balance>>,
                 <<"total_wagered", state.total_wagered>>,
                 <<"total_profit_loss", state.total_profit_loss>>,
                 <<"daily_loss", state.daily_loss>>,
                 <<"bets_today", state.bets_today>> >>]

\* The file is missing or cannot be parsed into a BankrollState: it does not
\* decode, is not JSON, is not a JSON object, or lacks a field or has one too
\* many.
Unparseable(f) ==
    \/ ~f.exists
    \/ f.kind # "json_object"
    \/ \E key \in {BankrollFields[k] : k \in 1..Len(BankrollFields)} :
          \A k \in 1..Len(f.data) : f.data[k][1] # key
    \/ \E k \in 1..Len(f.data) :
          \A m \in 1..Len(BankrollFields) : f.data[k][1] # BankrollFields[m]

\* C13 as claimed: when the file is missing or cannot be parsed into a
\* BankrollState, load() does not raise; it returns the freshly seeded state
\* (balance = initial balance, counters zero) and has written it to the file.
C13_LoadFallsBackToFresh ==
    (ledger_op.name = "load" /\ Unparseable(ledger_op.file_before)) =>
        /\ ledger_op.step = "returned"
        /\ bankroll.cached
        /\ bankroll.state = BankrollState(INITIAL_BANKROLL, INITIAL_BANKROLL, 0, 0, 0, 0)
        /\ file = Written(bankroll.state)

\* C14 as claimed: when record_bet or record_result was interrupted at any
\* step, on a file that held the state the call began with, the next load()
\* returns that state or the state the call was writing, nothing else.
C14_CrashKeepsCommitted ==
    (Done("load") /\ ledger_op.after_crash /\ ledger_op.crash.was_saved) =>
        bankroll.state \in {ledger_op.crash.committed, ledger_op.crash.after}

\* C15: write-through and round trip.  When record_bet or record_result has
\* returned, the file holds the six fields of the state in memory and load()
\* on that file gives that state back without rewriting it; and load() in a new
\* BankrollManager, on a file untouched since a save, returns the state saved.
C15_WriteThroughRoundTrip ==
    /\ (Done("record_bet") \/ Done("record_result")) =>
          /\ file = Written(bankroll.state)
          /\ ~load(file, INITIAL_BANKROLL).raised
          /\ load(file, INITIAL_BANKROLL).state = bankroll.state
          /\ load(file, INITIAL_BANKROLL).file = file
    /\ (Done("load") /\ ~ledger_op.had_cache /\ ledger_op.saved.known) =>
          /\ bankroll.state = ledger_op.saved.state
          /\ file = ledger_op.file_before

\* A new BankrollManager has loaded what record_result saved after record_bet:
\* all six fields are back, none of them equal by accident.
C15_Witness ==
    /\ Done("load")
    /\ ~ledger_op.had_cache
    /\ ledger_op.saved.known
    /\ bankroll.state = BankrollState(95000, 100000, 2500, 0 - 2500, 2500, 1)

\* C16 as claimed: with a state cached, load() returns that state, whatever
\* the file holds by then.
C16_LoadReturnsCache ==
    (Done("load") /\ ledger_op.had_cache) => bankroll.state = ledger_op.start

\* C17: record_result(pl) adds pl to balance and to total_profit_loss, adds
\* |pl| to daily_loss when pl < 0 and leaves it alone otherwise, and leaves
\* total_wagered, bets_today and initial_balance unchanged; called right after
\* record_bet(s) on a fresh ledger with pl < 0, it leaves daily_loss = |pl| and
\* balance = initial - s + pl.
C17_RecordResult ==
    Done("record_result") =>
        LET before == ledger_op.start
            after  == bankroll.state
            pl     == ledger_op.arg
        IN  /\ after.balance = before.balance + pl
            /\ after.total_profit_loss = before.total_profit_loss + pl
            /\ pl < 0 => after.daily_loss = before.daily_loss + (0 - pl)
            /\ pl >= 0 => after.daily_loss = before.daily_loss
            /\ after.total_wagered = before.total_wagered
            /\ after.bets_today = before.bets_today
            /\ after.initial_balance = before.initial_balance
            /\ (/\ pl < 0
                /\ ledger_op.prev.name = "record_bet"
                /\ ledger_op.prev.start = FreshState(INITIAL_BANKROLL)) =>
                   /\ after.daily_loss = 0 - pl
                   /\ after.balance = INITIAL_BANKROLL - ledger_op.prev.arg + pl

\* record_bet(50.00) then record_result(-25.00) on a fresh ledger, and before
\* that a profit recorded with daily_loss standing.
C17_Witness ==
    /\ Done("record_result")
    /\ ledger_op.arg = 0 - 2500
    /\ ledger_op.prev = [name |-> "record_bet", arg |-> 5000,
                         start |-> FreshState(INITIAL_BANKROLL)]
    /\ bankroll.state = BankrollState(92500, 100000, 5000, 0 - 2500, 2500, 1)

\* C18: record_bet(stake) takes stake off balance, adds it to total_wagered,
\* adds 1 to bets_today, leaves initial_balance, total_profit_loss and
\* daily_loss unchanged, and has written the state to the file when it
\* returns.
C18_RecordBet ==
    Done("record_bet") =>
        LET before == ledger_op.start
            after  == bankroll.state
            stake  == ledger_op.arg
        IN  /\ after.balance = before.balance - stake
            /\ after.total_wagered = before.total_wagered + stake
            /\ after.bets_today = before.bets_today + 1
            /\ after.initial_balance = before.initial_balance
            /\ after.total_profit_loss = before.total_profit_loss
            /\ after.daily_loss = before.daily_loss
            /\ file = Written(after)

\* record_bet on a ledger with a loss recorded, so that no field it must leave
\* alone is zero.
C18_Witness ==
    /\ Done("record_bet")
    /\ ledger_op.arg = 2500
    /\ ledger_op.start = BankrollState(97500, 100000, 0, 0 - 2500, 2500, 0)
    /\ bankroll.state = BankrollState(95000, 100000, 2500, 0 - 2500, 2500, 1)
    /\ file = save(bankroll.state)

\* C25: on a ledger that load() seeded fresh, after any sequence of
\* record_bet and record_result calls, balance = initial_balance -
\* total_wagered + total_profit_loss, total_wagered is the sum of the stakes
\* recorded, bets_today is the number of record_bet calls, and
\* initial_balance is still the seed.
C25_LedgerIdentity ==
    (bankroll.cached /\ ledger_op.seed.fresh /\ ledger_op.step # "raised") =>
        LET state == bankroll.state
        IN  /\ state.balance
                   = state.initial_balance - state.total_wagered + state.total_profit_loss
            /\ state.total_wagered = ledger_op.seed.stakes
            /\ state.bets_today = ledger_op.seed.bets
            /\ state.initial_balance = INITIAL_BANKROLL

\* Two bets of 25.00 and 50.00 and a loss of 25.00 on a fresh ledger.
C25_Witness ==
    /\ Done("record_result")
    /\ ledger_op.seed.fresh
    /\ ledger_op.seed.stakes = 7500
    /\ ledger_op.seed.bets = 2
    /\ bankroll.state = BankrollState(90000, 100000, 7500, 0 - 2500, 2500, 2)

\* C26: no call of a BankrollManager lowers daily_loss or bets_today of the
\* state it holds, except a load() that finds the file missing or unreadable
\* and seeds a fresh ledger; so a gate that check_daily_loss_limit has found
\* closed stays closed over any further record_bet and record_result, and
\* what those calls leave in the file is a ledger on which a later run finds
\* the gate closed at its first event.
C26_GateStaysClosed ==
    /\ [][ (bankroll.cached /\ bankroll'.cached
               /\ ~(ledger_op'.name = "load" /\ ledger_op'.n = ledger_op.n + 1
                       /\ Unparseable(file))) =>
             /\ bankroll'.state.daily_loss >= bankroll.state.daily_loss
             /\ bankroll'.state.bets_today >= bankroll.state.bets_today
             /\ ~check_daily_loss_limit(bankroll.state, DAILY_LOSS_LIMIT)
                   => ~check_daily_loss_limit(bankroll'.state, DAILY_LOSS_LIMIT) ]_vars
    /\ []( (/\ Done("record_bet") \/ Done("record_result")
            /\ ~check_daily_loss_limit(ledger_op.start, DAILY_LOSS_LIMIT)) =>
              ~check_daily_loss_limit(load(file, INITIAL_BANKROLL).state, DAILY_LOSS_LIMIT) )

\* Two losses of 25.00 closed the gate of a ledger with 25 bets on it, and a
\* bet recorded after that has left it closed, in memory and in the file.
C26_Witness ==
    /\ Done("record_bet")
    /\ ledger_op.prev.name = "record_result"
    /\ ledger_op.start.daily_loss = 5000
    /\ ledger_op.start.bets_today = 25
    /\ ~check_daily_loss_limit(ledger_op.start, DAILY_LOSS_LIMIT)
    /\ bankroll.state.bets_today = ledger_op.start.bets_today + 1
    /\ ~check_daily_loss_limit(bankroll.state, DAILY_LOSS_LIMIT)
    /\ file = save(bankroll.state)

\* ------------------------------------------------------------------------
\* Two BankrollManagers on one ledger file: a live run, and a second manager
\* (another run, or a settlement job) whose calls fall between its steps
\* ------------------------------------------------------------------------

\* Calls of the second manager.
MaxOtherOps == 2

OtherStakes == {2500}
OtherResults == {0 - 5000}

InitShared ==
    /\ events \in {<<HomeEvent>>, <<HomeEvent, HomeEvent>>, <<SkipEvent, HomeEvent>>}
    /\ DRY_RUN = FALSE
    /\ MAX_BETS_PER_RUN \in {1, 2}
    /\ llm_analyst = "none"
    /\ sportsbook = "StubSportsbook"
    /\ file \in {NoFile, save(UnusedLedger), save(LowLedger)}
    /\ bankroll = [cached |-> FALSE, state |-> FreshState(0)]
    /\ loaded = FreshState(0)
    /\ pc = "start"
    /\ pos = 1
    /\ records = << >>
    /\ bets_placed = 0
    /\ calls = [analyse |-> 0, place_bet |-> 0, record_bet |-> 0]
    /\ last = NoLast
    /\ ledger_op = NoCall
    /\ evaluation = NoEvaluation
    /\ other = NoOther

\* A call of the second manager that leaves it with this state.
OtherCall(name, arg, state, from_file) ==
    [cached |-> TRUE,
     state  |-> state,
     loaded |-> from_file,
     n      |-> other.n + 1,
     bets   |-> IF name = "record_bet" THEN other.bets + 1 ELSE other.bets,
     settled |-> IF name = "record_result" THEN other.settled + 1 ELSE other.settled,
     last   |-> [name |-> name, arg |-> arg, pc |-> pc, pos |-> pos,
                 record_bet |-> calls.record_bet]]

OtherUnchanged ==
    UNCHANGED <<settings, bankroll, loaded, pc, pos, records, bets_placed, calls, last,
                ledger_op, evaluation>>

\* A second manager that reads the file again at every call.
OtherResolved_reread == load(file, INITIAL_BANKROLL)

\* state = self._state or self.load(), in the second manager.
OtherResolved ==
    IF other.cached
    THEN [state |-> other.state, file |-> file, raised |-> FALSE]
    ELSE load(file, INITIAL_BANKROLL)

\* Lines 29-50, in the second manager.
OtherLoad ==
    /\ other.n < MaxOtherOps
    /\ LET r == load(file, INITIAL_BANKROLL)
       IN  /\ file' = r.file
           /\ other' = OtherCall("load", 0, r.state, r.state)
    /\ OtherUnchanged

\* What the second manager knows to have come from the file.
OtherLoaded == IF other.cached THEN other.loaded ELSE OtherResolved.state

\* Lines 62-67, in the second manager.
OtherRecordBet ==
    /\ other.n < MaxOtherOps
    /\ \E stake \in OtherStakes :
          /\ file' = save(record_bet(OtherResolved.state, stake))
          /\ other' = OtherCall("record_bet", stake,
                                record_bet(OtherResolved.state, stake), OtherLoaded)
    /\ OtherUnchanged

\* Lines 69-76, in the second manager: a settlement.
OtherRecordResult ==
    /\ other.n < MaxOtherOps
    /\ \E profit_loss \in OtherResults :
          /\ file' = save(record_result(OtherResolved.state, profit_loss))
          /\ other' = OtherCall("record_result", profit_loss,
                                record_result(OtherResolved.state, profit_loss),
                                OtherLoaded)
    /\ OtherUnchanged

NextShared ==
    \/ Load
    \/ Return
    \/ BreakMaxBets
    \/ BreakDailyLoss
    \/ SkipEdge
    \/ SkipStake
    \/ PlaceAccepted
    \/ OtherLoad
    \/ OtherRecordBet
    \/ OtherRecordResult

SpecShared == InitShared /\ [][NextShared]_vars

\* ------------------------------------------------------------------------
\* Properties of two managers on one file
\* ------------------------------------------------------------------------

\* Both managers hold the ledger as the file had it at one time, and each has
\* called record_bet once since and nothing else that changes the ledger.
BothBetOnce ==
    /\ bankroll.cached
    /\ other.cached
    /\ other.loaded = loaded
    /\ calls.record_bet = 1
    /\ other.last.name = "record_bet"
    /\ other.bets = 1
    /\ other.settled = 0

\* C23: nothing keeps the second save from overwriting the first, and
\* record_bet does not read the file again: when two managers have loaded
\* the same ledger and each has called record_bet, the file holds the state
\* of the one that saved last, with its own stake only; the balance in the
\* file is not the loaded balance less both stakes, and one bet is missing
\* from bets_today.
C23_LostUpdate ==
    BothBetOnce =>
        LET mine    == bankroll.state.total_wagered - loaded.total_wagered
            theirs  == other.last.arg
            last_is_other == other.last.record_bet = 1
            durable == load(file, INITIAL_BANKROLL).state
        IN  /\ mine > 0 /\ theirs > 0
            /\ other.state = record_bet(other.loaded, theirs)
            /\ durable = IF last_is_other THEN other.state ELSE bankroll.state
            /\ durable.balance
                   = loaded.balance - (IF last_is_other THEN theirs ELSE mine)
            /\ durable.balance # loaded.balance - mine - theirs
            /\ durable.bets_today = loaded.bets_today + 1

\* Both loaded a balance of 1000.00; the run debited 50.00 and saved, the
\* second manager then debited 25.00 and saved: the file says 975.00 and one
\* bet.
C23_Witness ==
    /\ BothBetOnce
    /\ loaded = UnusedLedger
    /\ other.last.record_bet = 1
    /\ bankroll.state.balance = 95000
    /\ other.state.balance = 97500
    /\ file = save(other.state)
    /\ load(file, INITIAL_BANKROLL).state.total_wagered = 2500

\* C28: the daily-loss gate and the stake of a run are computed from the
\* state the run's manager holds in memory, whatever the file holds by then:
\* the run stops at the gate exactly when that state is at the limit, the
\* stake is compute_stake of that state's balance, and a debit of the run
\* writes that state to the file over whatever another manager has written
\* there.
C28_GateReadsCache ==
    [][ (AtEvent /\ last'.idx = pos) =>
          /\ last'.exit = "break_daily_loss" <=>
                (/\ ~MaxBetsReached(bets_placed, MAX_BETS_PER_RUN)
                 /\ ~check_daily_loss_limit(bankroll.state, DAILY_LOSS_LIMIT))
          /\ last'.exit \in {"skip_stake", "record"} =>
                last'.kelly_stake =
                    compute_stake(bankroll.state.balance,
                                  last'.best.true_prob, last'.best.odds,
                                  KELLY_FRACTION, MAX_STAKE_PCT, MIN_STAKE)
          /\ last'.exit = "record" =>
                /\ bankroll'.state = record_bet(bankroll.state, last'.stake)
                /\ file' = Written(bankroll'.state) ]_vars

\* While the run stood at its second event, a second manager recorded a loss
\* of 50.00, which is the limit; the run went on to place a bet for that
\* event, and the file now holds the run's state, with daily_loss 0.
C28_Witness ==
    /\ other.last.name = "record_result"
    /\ other.last.pc = "loop"
    /\ other.last.pos = 2
    /\ ~check_daily_loss_limit(other.state, DAILY_LOSS_LIMIT)
    /\ Len(records) = 2
    /\ records[2].event_id = 2
    /\ calls.record_bet = other.last.record_bet + 1
    /\ file = save(bankroll.state)
    /\ bankroll.state.daily_loss = 0
    /\ check_daily_loss_limit(load(file, INITIAL_BANKROLL).state, DAILY_LOSS_LIMIT)

=============================================================================
